---- MODULE Spec2Model ----
(***************************************************************************)
(* rw_gjk: 2D overlap detection (GJK) and resolution (expanding polytope). *)
(*                                                                         *)
(* Numbers.  The library computes on doubles.  The model computes on exact *)
(* reals of the form  c0 + c1*e + c2*e^2 + ...  where e is the constant    *)
(* LINE_THICKNESS (1e-7 in the source) and the ci are small integers.  A   *)
(* number is the tuple <<c0, c1, ...>> of its coefficients: a coordinate   *)
(* is a pair <<c0, c1>>, a product of two coordinates a triple, and so on. *)
(* Because every |ci| stays far below 1/e = 10^7, the                      *)
(* sign of such a number is the sign of its first nonzero coefficient, so  *)
(* every comparison the code makes is decided exactly.  Unit vectors are   *)
(* never formed: a normalised vector is kept as the vector it was          *)
(* normalised from together with the flag `unit', and a comparison of a    *)
(* normalised quantity against a threshold is decided on squares.          *)
(* Rounding of the doubles is not modelled, but for the test               *)
(* dot(a, b) == 1 of is_convex (see DotIsOne).                             *)
(***************************************************************************)
EXTENDS Integers, Sequences, FiniteSets, TLC

(***************************************************************************)
(* Exact numbers.  A coordinate is <<c0, c1>> (degree 1 in e); a product   *)
(* of two coordinates is a triple; its square has five coefficients and    *)
(* the product of that with a triple seven.                                *)
(***************************************************************************)
Add1(a, b) == <<a[1] + b[1], a[2] + b[2]>>
Sub1(a, b) == <<a[1] - b[1], a[2] - b[2]>>
Neg1(a) == <<0 - a[1], 0 - a[2]>>
Mul11(a, b) == <<a[1] * b[1], a[1] * b[2] + a[2] * b[1], a[2] * b[2]>>

Add2(a, b) == <<a[1] + b[1], a[2] + b[2], a[3] + b[3]>>
Sq2(a) ==
  <<a[1] * a[1], 2 * a[1] * a[2], a[2] * a[2] + 2 * a[1] * a[3],
    2 * a[2] * a[3], a[3] * a[3]>>
Mul42(a, b) ==
  <<a[1] * b[1],
    a[1] * b[2] + a[2] * b[1],
    a[1] * b[3] + a[2] * b[2] + a[3] * b[1],
    a[2] * b[3] + a[3] * b[2] + a[4] * b[1],
    a[3] * b[3] + a[4] * b[2] + a[5] * b[1],
    a[4] * b[3] + a[5] * b[2],
    a[5] * b[3]>>

\* the sign of a number: the sign of its first nonzero coefficient
RECURSIVE SignFrom(_, _)
SignFrom(a, i) ==
  IF i > Len(a) THEN 0
  ELSE IF a[i] > 0 THEN 1
  ELSE IF a[i] < 0 THEN 0 - 1
  ELSE SignFrom(a, i + 1)

Sign(a) == SignFrom(a, 1)

\* a < b and a <= b for numbers with the same number of coefficients
RECURSIVE LtFrom(_, _, _)
LtFrom(a, b, i) ==
  IF i > Len(a) THEN FALSE
  ELSE IF a[i] < b[i] THEN TRUE
  ELSE IF a[i] > b[i] THEN FALSE
  ELSE LtFrom(a, b, i + 1)

Lt(a, b) == LtFrom(a, b, 1)
Le(a, b) == ~LtFrom(b, a, 1)

\* const double LINE_THICKNESS = 0.0000001: the number e, as a coordinate
LINE_THICKNESS == <<0, 1>>

\* LINE_THICKNESS as a product of coordinates, and LINE_THICKNESS^2 * l
\* for a triple l
ThicknessAsProduct == <<0, 1, 0>>
ThicknessSqTimes(l) == <<0, 0, l[1], l[2], l[3]>>

(***************************************************************************)
(* struct v2 and its operations.                                           *)
(***************************************************************************)
v2(x, y) == [x |-> x, y |-> y]

ORIGIN == v2(<<0, 0>>, <<0, 0>>)

VAdd(a, b) == v2(Add1(a.x, b.x), Add1(a.y, b.y))
VSub(a, b) == v2(Sub1(a.x, b.x), Sub1(a.y, b.y))
VNeg(a) == v2(Neg1(a.x), Neg1(a.y))

dot(a, b) == Add2(Mul11(a.x, b.x), Mul11(a.y, b.y))

is_0(a) == a = ORIGIN

\* squared length: length() itself is a square root and is never formed
LengthSq(a) == dot(a, a)

\* A direction is a vector with the flag `unit': the double vector it
\* stands for is v / |v| when unit holds and v is nonzero, and v otherwise.
Dir(v, unit) == [v |-> v, unit |-> unit]

normalised_or_0(a) == Dir(a, TRUE)

right_normal_or_0(a) == Dir(v2(a.y, Neg1(a.x)), TRUE)

\* normal_in_direction_or_0 giving the right normal or nothing
RightNormalOr0InDirection(a, direction) ==
  LET normal_a == right_normal_or_0(a)
  IN  IF Sign(dot(normal_a.v, direction)) > 0 THEN normal_a ELSE Dir(ORIGIN, TRUE)

normal_in_direction_or_0(a, direction) ==
  LET normal_a == right_normal_or_0(a)
      dot_result == Sign(dot(normal_a.v, direction))
  IN  IF dot_result > 0 THEN normal_a
      ELSE IF dot_result < 0 THEN Dir(VNeg(normal_a.v), TRUE)
      ELSE Dir(ORIGIN, TRUE)

\* rotated(radians) for radians a whole number q of quarter turns;
\* a positive q turns the vector clockwise.
rotated(a, q) ==
  IF q % 4 = 0 THEN a
  ELSE IF q % 4 = 1 THEN v2(a.y, Neg1(a.x))
  ELSE IF q % 4 = 2 THEN v2(Neg1(a.x), Neg1(a.y))
  ELSE v2(Neg1(a.y), a.x)

\* DotLeThickness with the comparison the other way round
DotGeThickness(p, d) ==
  LET dp == dot(p, d.v)
  IN  Le(ThicknessAsProduct, dp)

\* dot(p, d) <= LINE_THICKNESS for a direction d
DotLeThickness(p, d) ==
  LET dp == dot(p, d.v)
  IN  IF ~d.unit \/ is_0(d.v) THEN Le(dp, ThicknessAsProduct)
      ELSE Sign(dp) <= 0 \/ Le(Sq2(dp), ThicknessSqTimes(LengthSq(d.v)))

(***************************************************************************)
(* struct Shape: pos, angle (in quarter turns) and corners.  Every shape   *)
(* of the model is a polygon (is_circle = FALSE): the support point of a   *)
(* circle, pos + normalised(direction) * radius, is not an exact number    *)
(* of the model.                                                           *)
(***************************************************************************)
Shape(pos, angle, corners) ==
  [pos |-> pos, angle |-> angle, corners |-> corners, is_circle |-> FALSE]

\* the loop of get_baked_corner_of_shape: the corner with the highest dot,
\* the first of them when several are equal (new_dot > best_dot)
RECURSIVE BestCornerIndex(_, _, _, _)
BestCornerIndex(rotated_corners, corner_direction, i, best) ==
  IF i > Len(rotated_corners) THEN best
  ELSE IF Lt(dot(rotated_corners[best], corner_direction),
              dot(rotated_corners[i], corner_direction))
       THEN BestCornerIndex(rotated_corners, corner_direction, i + 1, i)
       ELSE BestCornerIndex(rotated_corners, corner_direction, i + 1, best)

get_baked_corner_of_shape(shape, corner_direction) ==
  LET rotated_corners ==
        [i \in 1..Len(shape.corners) |-> rotated(shape.corners[i], shape.angle)]
  IN  VAdd(shape.pos,
           rotated_corners[BestCornerIndex(rotated_corners, corner_direction, 2, 1)])

get_minkowski_diffed_corner(shape, other_shape, direction) ==
  VSub(get_baked_corner_of_shape(shape, direction),
       get_baked_corner_of_shape(other_shape, VNeg(direction)))

(***************************************************************************)
(* GJK: origin_is_between_points, improve_2_simplex, improve_simplex.      *)
(* improve_* return [inside, simplex, search_direction]: the bool result   *)
(* and the two reference arguments as the call leaves them.                *)
(***************************************************************************)
origin_is_between_points(a, b) ==
  LET ao == VSub(ORIGIN, a)
      bo == VSub(ORIGIN, b)
      ab == VSub(b, a)
      ba == VSub(a, b)
  IN  Sign(dot(ao, ab)) >= 0 /\ Sign(dot(bo, ba)) >= 0

\* OriginWithinThicknessOfLine with an exact test: the distance is 0
OriginExactlyOnLine(a, b) ==
  Sign(dot(right_normal_or_0(VSub(b, a)).v, VSub(ORIGIN, a))) = 0

\* fabs(dot(line_normal, ORIGIN - a)) <= LINE_THICKNESS, line_normal the
\* normalised right normal of b - a
OriginWithinThicknessOfLine(a, b) ==
  LET n == right_normal_or_0(VSub(b, a)).v
      d == dot(n, VSub(ORIGIN, a))
  IN  Le(Sq2(d), ThicknessSqTimes(LengthSq(n)))

\* Improved never reporting that the simplex contains the origin
ImprovedNeverInside(inside, simplex, search_direction) ==
  [inside |-> FALSE, simplex |-> simplex, search_direction |-> search_direction]

\* what improve_simplex hands back: its return value and its two
\* reference parameters
Improved(inside, simplex, search_direction) ==
  [inside |-> inside, simplex |-> simplex, search_direction |-> search_direction]

improve_2_simplex(simplex, search_direction) ==
  IF origin_is_between_points(simplex[1], simplex[2])
  THEN IF OriginWithinThicknessOfLine(simplex[1], simplex[2])
       THEN Improved(TRUE, simplex, search_direction)
       ELSE Improved(FALSE, simplex,
                     normal_in_direction_or_0(VSub(simplex[2], simplex[1]),
                                              VSub(ORIGIN, simplex[1])))
  ELSE IF Sign(dot(VSub(simplex[2], simplex[1]), VSub(ORIGIN, simplex[1]))) <= 0
  THEN Improved(FALSE, <<simplex[1]>>, normalised_or_0(VSub(ORIGIN, simplex[1])))
  \* simplex = {simplex[1]} leaves the second element of the old buffer in
  \* place, and the read of simplex[1] that follows finds it there
  ELSE Improved(FALSE, <<simplex[2]>>, normalised_or_0(VSub(ORIGIN, simplex[2])))

\* improve_simplex testing the first edge only
ImproveSimplexByFirstEdge(simplex, search_direction) ==
  IF Len(simplex) = 3
  THEN LET ab == VSub(simplex[2], simplex[1])
           ca == VSub(simplex[1], simplex[3])
           ab_normal_away_from_c == normal_in_direction_or_0(ab, ca).v
       IN  IF Sign(dot(ab_normal_away_from_c, VSub(ORIGIN, simplex[1]))) > 0
           THEN improve_2_simplex(<<simplex[1], simplex[2]>>, search_direction)
           ELSE Improved(TRUE, simplex, search_direction)
  ELSE improve_2_simplex(simplex, search_direction)

improve_simplex(simplex, search_direction) ==
  IF Len(simplex) = 3
  THEN LET ab == VSub(simplex[2], simplex[1])
           bc == VSub(simplex[3], simplex[2])
           ca == VSub(simplex[1], simplex[3])
           ab_normal_away_from_c == normal_in_direction_or_0(ab, ca).v
           bc_normal_away_from_a == normal_in_direction_or_0(bc, ab).v
           ca_normal_away_from_b == normal_in_direction_or_0(ca, bc).v
       IN  IF Sign(dot(ab_normal_away_from_c, VSub(ORIGIN, simplex[1]))) > 0
           THEN improve_2_simplex(<<simplex[1], simplex[2]>>, search_direction)
           ELSE IF Sign(dot(bc_normal_away_from_a, VSub(ORIGIN, simplex[2]))) > 0
           THEN improve_2_simplex(<<simplex[2], simplex[3]>>, search_direction)
           ELSE IF Sign(dot(ca_normal_away_from_b, VSub(ORIGIN, simplex[3]))) > 0
           THEN improve_2_simplex(<<simplex[3], simplex[1]>>, search_direction)
           ELSE Improved(TRUE, simplex, search_direction)
  ELSE improve_2_simplex(simplex, search_direction)

(***************************************************************************)
(* shapes_are_overlapping, one loop iteration at a time.  A GJK state is   *)
(* [simplex, search_direction, verdict], verdict "running" inside the      *)
(* loop, "overlap" after return true and "no_overlap" after return false.  *)
(***************************************************************************)
GjkState(simplex, search_direction, verdict) ==
  [simplex |-> simplex, search_direction |-> search_direction, verdict |-> verdict]

\* GjkStart with the seed direction taken from shape_a.pos alone
GjkStartFromOwnPosition(shape_a, shape_b) ==
  LET n == right_normal_or_0(shape_a.pos).v
      seed == IF is_0(n) THEN v2(<<1, 0>>, <<0, 0>>) ELSE n
      first == get_minkowski_diffed_corner(shape_a, shape_b, seed)
  IN  GjkState(<<first>>, Dir(VSub(ORIGIN, first), FALSE), "running")

\* lines 680-684: the seed direction and the first simplex vertex
GjkStart(shape_a, shape_b) ==
  LET n == right_normal_or_0(VSub(shape_b.pos, shape_a.pos)).v
      seed == IF is_0(n) THEN v2(<<1, 0>>, <<0, 0>>) ELSE n
      first == get_minkowski_diffed_corner(shape_a, shape_b, seed)
  IN  GjkState(<<first>>, Dir(VSub(ORIGIN, first), FALSE), "running")

\* GjkIterate without the return of line 689
GjkIterateWithoutReturn(shape_a, shape_b, g) ==
  LET corner == get_minkowski_diffed_corner(shape_a, shape_b, g.search_direction.v)
      r == improve_simplex(Append(g.simplex, corner), g.search_direction)
  IN  GjkState(r.simplex, r.search_direction,
               IF r.inside THEN "overlap" ELSE "running")

\* lines 687-696: one iteration of while (true)
GjkIterate(shape_a, shape_b, g) ==
  LET corner == get_minkowski_diffed_corner(shape_a, shape_b, g.search_direction.v)
      pushed == Append(g.simplex, corner)
  IN  IF DotLeThickness(corner, g.search_direction)
      THEN GjkState(pushed, g.search_direction, "no_overlap")
      ELSE LET r == improve_simplex(pushed, g.search_direction)
           IN  GjkState(r.simplex, r.search_direction,
                        IF r.inside THEN "overlap" ELSE "running")

\* a bound on the iterations the model follows
MaxGjkIterations == 8

RECURSIVE GjkRun(_, _, _, _)
GjkRun(shape_a, shape_b, g, n) ==
  IF g.verdict # "running" THEN g
  ELSE IF n = 0 THEN GjkState(g.simplex, g.search_direction, "unfinished")
  ELSE GjkRun(shape_a, shape_b, GjkIterate(shape_a, shape_b, g), n - 1)

\* the whole call: the final GJK state
shapes_are_overlapping(shape_a, shape_b) ==
  GjkRun(shape_a, shape_b, GjkStart(shape_a, shape_b), MaxGjkIterations)


(***************************************************************************)
(* get_overlap_amount.  The value returned is kept as an Amount            *)
(*   [num, den, dir]  standing for  num/den + LINE_THICKNESS * dir/|dir|   *)
(* (the second term absent when dir is zero): the closest point of the     *)
(* overlap line as an exact quotient, lengthened by LINE_THICKNESS.  The   *)
(* coordinates of num and dir have four coefficients, den has three.       *)
(***************************************************************************)
Widen(a) == <<a[1], a[2], 0, 0>>
VWiden(a) == v2(Widen(a.x), Widen(a.y))
Zero3 == <<0, 0, 0, 0>>
Zero3V == v2(Zero3, Zero3)
One2 == <<1, 0, 0>>

Amount(num, den, dir) == [num |-> num, den |-> den, dir |-> dir]

\* return v2(0, 0)
ZeroAmount == Amount(Zero3V, One2, Zero3V)

\* lines 709-717: fewer than three simplex vertices
NudgeAmount(shape_a, shape_b) ==
  LET pos_vector == normalised_or_0(VSub(shape_b.pos, shape_a.pos)).v
  IN  Amount(Zero3V, One2,
             VWiden(IF is_0(pos_vector) THEN v2(<<1, 0>>, <<0, 0>>) ELSE pos_vector))

\* 1-based index of the vertex after s0, (s0+1) % simplex.size()
NextIndex(simplex, s0) == (s0 % Len(simplex)) + 1

\* line_distance of the line from simplex[s0], as the pair <<c, l>> with
\* line_distance^2 = c / l
LineDistanceSq(simplex, s0) ==
  LET n == right_normal_or_0(VSub(simplex[NextIndex(simplex, s0)], simplex[s0])).v
  IN  IF is_0(n) THEN <<<<0, 0, 0, 0, 0>>, <<1, 0, 0>>>>
      ELSE <<Sq2(dot(n, VSub(ORIGIN, simplex[s0]))), LengthSq(n)>>

\* line_distance < closest_line_distance
LineDistanceLt(d, closest) == Lt(Mul42(d[1], closest[2]), Mul42(closest[1], d[2]))

\* lines 725-737: the first line with the least distance
RECURSIVE ClosestLineIndex(_, _, _)
ClosestLineIndex(simplex, s0, closest) ==
  IF s0 > Len(simplex) THEN closest
  ELSE IF LineDistanceLt(LineDistanceSq(simplex, s0), LineDistanceSq(simplex, closest))
       THEN ClosestLineIndex(simplex, s0 + 1, s0)
       ELSE ClosestLineIndex(simplex, s0 + 1, closest)

\* simplex_corner.distance(new_corner) <= CORNER_SIMILARITY_TOLERANCE
CornersSimilar(a, b) == Le(LengthSq(VSub(a, b)), <<0, 0, 1>>)

InsertAt(seq, i, e) == SubSeq(seq, 1, i - 1) \o <<e>> \o SubSeq(seq, i, Len(seq))

\* One iteration of the loop of lines 721-767 on the polytope `simplex':
\* [simplex, outcome, overlap_line_index], outcome "assert" when
\* assert(!outer_normal.is_0()) fails, "break" when the new corner matches
\* a corner of the polytope, "continue" after the insertion.
EpaIterate(shape_a, shape_b, simplex) ==
  LET s0 == ClosestLineIndex(simplex, 2, 1)
      s1 == NextIndex(simplex, s0)
      outer_normal == normal_in_direction_or_0(VSub(simplex[s1], simplex[s0]),
                                               VSub(simplex[s0], ORIGIN))
      new_corner == get_minkowski_diffed_corner(shape_a, shape_b, outer_normal.v)
      found_match == \E i \in 1..Len(simplex) : CornersSimilar(simplex[i], new_corner)
  IN  IF is_0(outer_normal.v)
      THEN [simplex |-> simplex, outcome |-> "assert", overlap_line_index |-> 0]
      ELSE IF found_match
      THEN [simplex |-> simplex, outcome |-> "break", overlap_line_index |-> s0]
      ELSE [simplex |-> InsertAt(simplex, s1, new_corner), outcome |-> "continue",
            overlap_line_index |-> 0]

\* The values the read of simplex[overlap_line_index+1] can find when the
\* index is one past the last vertex: the memory behind the vertices holds
\* zeroes or vertices copied there earlier.
StaleValues(simplex) == {ORIGIN} \cup {simplex[i] : i \in 1..Len(simplex)}

\* the vertex simplex[overlap_line_index+1] of line 772 (no modulo)
LineEnds(simplex, overlap_line_index) ==
  IF overlap_line_index + 1 <= Len(simplex)
  THEN {simplex[overlap_line_index + 1]}
  ELSE StaleValues(simplex)

\* a coordinate times a product of coordinates
Mul12(a, b) ==
  <<a[1] * b[1], a[1] * b[2] + a[2] * b[1], a[1] * b[3] + a[2] * b[2], a[2] * b[3]>>
Add3(a, b) == <<a[1] + b[1], a[2] + b[2], a[3] + b[3], a[4] + b[4]>>

\* lines 771-780: the point of the line p, q closest to the origin,
\* lengthened by LINE_THICKNESS.  The point is p + unit * len with
\* unit = (q - p) / |q - p| and len = dot(unit, -p): exactly
\* (p * l + (q - p) * dot(q - p, -p)) / l with l = |q - p|^2, which is p
\* with its x (its y) set to zero when the line is parallel to the x (the
\* y) axis.
OverlapAmount(p, q) ==
  LET overlap_line == VSub(q, p)
      l == LengthSq(overlap_line)
      len == dot(overlap_line, VSub(ORIGIN, p))
      point_of_overlap ==
        IF is_0(overlap_line) THEN <<VWiden(p), One2>>
        ELSE IF overlap_line.y = <<0, 0>> THEN <<v2(Zero3, Widen(p.y)), One2>>
        ELSE IF overlap_line.x = <<0, 0>> THEN <<v2(Widen(p.x), Zero3), One2>>
        ELSE <<v2(Add3(Mul12(p.x, l), Mul12(overlap_line.x, len)),
                  Add3(Mul12(p.y, l), Mul12(overlap_line.y, len))), l>>
  IN  IF point_of_overlap[1] = Zero3V THEN ZeroAmount
      ELSE Amount(point_of_overlap[1], point_of_overlap[2], point_of_overlap[1])

(***************************************************************************)
(* The shapes and positions of the model.                                  *)
(***************************************************************************)
\* positions have coordinates k + j * LINE_THICKNESS, |k| <= MaxCoord and
\* j one of -1, 0, 1: on a whole number, or one line thickness off it
MaxCoord == 3

Coord(k, j) == <<k, j>>
Corner(x, y) == v2(<<x, 0>>, <<y, 0>>)

\* the square of the tests' "identical polygons" (src/tests.cpp:449-454)
\* and the triangle of "Polygons overlap" (src/tests.cpp:385-389), in
\* units of a half width
SquareCorners == <<Corner(-1, -1), Corner(1, -1), Corner(1, 1), Corner(-1, 1)>>
TriangleCorners == <<Corner(-1, -1), Corner(1, -1), Corner(1, 1)>>

CornerLists == {SquareCorners, TriangleCorners}

\* the same corners with LINE_THICKNESS as the unit: a shape a few line
\* thicknesses wide
Tiny(corners) ==
  [i \in 1..Len(corners) |-> v2(<<0, corners[i].x[1]>>, <<0, corners[i].y[1]>>)]
Coords == {Coord(k, j) : k \in (0 - MaxCoord)..MaxCoord, j \in {0 - 1, 0, 1}}
Positions == {v2(x, y) : x \in Coords, y \in Coords}
TinyCoords == {Coord(0, j) : j \in (0 - MaxCoord)..MaxCoord}
TinyPositions == {v2(x, y) : x \in TinyCoords, y \in TinyCoords}

\* the pairs of shapes a run starts from: two shapes of unit size, or two
\* tiny shapes; shape_b at the origin, unrotated
ShapePairs ==
  {<<Shape(p, q, ca), Shape(ORIGIN, 0, cb)>> :
     p \in Positions, q \in {0, 1}, ca \in CornerLists, cb \in CornerLists}
  \cup
  {<<Shape(p, 0, Tiny(ca)), Shape(ORIGIN, 0, Tiny(cb))>> :
     p \in TinyPositions, ca \in CornerLists, cb \in CornerLists}

(***************************************************************************)
(* The program: a caller holding two shapes calls shapes_are_overlapping   *)
(* or get_overlap_amount, and after get_overlap_amount may subtract the    *)
(* amount from shape_a.pos and ask again, or may ask get_overlap_amount    *)
(* again with both shapes moved by the same offset or with the shapes      *)
(* swapped.                                                                *)
(***************************************************************************)
VARIABLES
  shape_a,            \* Shape *shape_a
  shape_b,            \* Shape *shape_b
  call,               \* the function called: "shapes_are_overlapping" or "get_overlap_amount"
  pc,                 \* "idle", "gjk", "returned_gjk", "epa", "epa_done", "done", "aborted"
  simplex,            \* vector<v2> simplex
  search_direction,   \* v2 search_direction
  verdict,            \* what shapes_are_overlapping returned: "running", "overlap", "no_overlap"
  overlap_line_index, \* int overlap_line_index (1-based; 0 for the source's -1)
  amount,             \* what get_overlap_amount returned, NoAmount before it returns
  gjk_iterations,     \* iterations of the loop of shapes_are_overlapping so far
  epa_iterations,     \* iterations of the loop of get_overlap_amount so far
  resolved,           \* TRUE once the caller has subtracted the amount from shape_a.pos
  previous,           \* the result of the first call once the caller asks again
  corners,            \* vector<v2> corners, the argument of try_make_polygon
  shape_out,          \* Shape *shape_out: "null" or "shape"
  pointee,            \* the Shape that shape_out points to
  convex_hull,        \* vector<v2> convex_hull of is_convex
  hull_search_direction, \* v2 search_direction of is_convex (unnormalised)
  polygon_pc,         \* "idle", "wrapping", "wrapped", "done"
  polygon_result,     \* what try_make_polygon returned: "none", "true", "false"
  other_query         \* the locals of a second query running at the same time

\* struct Shape with all its fields, as make_circle and try_make_polygon
\* write it.  A length is a square root and is never formed: the field
\* radius holds the square of the radius, as a product of coordinates.
ShapeValue(pos, angle, radius, is_circle, shape_corners) ==
  [pos |-> pos, angle |-> angle, radius |-> radius, is_circle |-> is_circle,
   corners |-> shape_corners]

\* make_circle on a fresh Shape
make_circle(radius) == ShapeValue(ORIGIN, 0, radius, TRUE, <<>>)

\* the shape that shape_out points to before try_make_polygon is called:
\* a circle of radius 2
EarlierShape == make_circle(<<4, 0, 0>>)

polygon_vars == <<corners, shape_out, pointee, convex_hull, hull_search_direction,
                  polygon_pc, polygon_result>>

vars == <<shape_a, shape_b, call, pc, simplex, search_direction, verdict,
          overlap_line_index, amount, gjk_iterations, epa_iterations, resolved,
          previous, polygon_vars, other_query>>

\* no value yet: no Amount has the denominator zero
NoAmount == Amount(Zero3V, <<0, 0, 0>>, Zero3V)

Previous(how, v, a) == [how |-> how, verdict |-> v, amount |-> a]
NoPrevious == Previous("none", "running", NoAmount)

\* the locals of one query: the function called, where it stands, and the
\* locals of shapes_are_overlapping and get_overlap_amount
Frame(c, p, s, d, v, i, a) ==
  [call |-> c, pc |-> p, simplex |-> s, search_direction |-> d, verdict |-> v,
   overlap_line_index |-> i, amount |-> a]

\* no second query
IdleFrame == Frame("none", "idle", <<>>, Dir(ORIGIN, FALSE), "running", 0, NoAmount)

Init ==
  /\ \E pair \in ShapePairs : shape_a = pair[1] /\ shape_b = pair[2]
  /\ call = "none"
  /\ pc = "idle"
  /\ simplex = <<>>
  /\ search_direction = Dir(ORIGIN, FALSE)
  /\ verdict = "running"
  /\ overlap_line_index = 0
  /\ amount = NoAmount
  /\ gjk_iterations = 0
  /\ epa_iterations = 0
  /\ resolved = FALSE
  /\ previous = NoPrevious
  /\ corners = <<>>
  /\ shape_out = "null"
  /\ pointee = EarlierShape
  /\ convex_hull = <<>>
  /\ hull_search_direction = Dir(ORIGIN, FALSE)
  /\ polygon_pc = "idle"
  /\ polygon_result = "none"
  /\ other_query = IdleFrame

\* entry of shapes_are_overlapping (called directly, or from
\* get_overlap_amount, line 705)
Call(c) ==
  /\ pc = "idle"
  /\ resolved => c = "shapes_are_overlapping"
  /\ previous # NoPrevious => c = "get_overlap_amount"
  /\ call' = c
  /\ LET g == GjkStart(shape_a, shape_b)
     IN  /\ simplex' = g.simplex
         /\ search_direction' = g.search_direction
         /\ verdict' = g.verdict
  /\ pc' = "gjk"
  /\ UNCHANGED <<shape_a, shape_b, overlap_line_index, amount, gjk_iterations,
                 epa_iterations, resolved, previous>>
  /\ UNCHANGED polygon_vars
  /\ UNCHANGED other_query

\* one iteration of the loop of shapes_are_overlapping
GjkStep ==
  /\ pc = "gjk"
  /\ gjk_iterations < MaxGjkIterations
  /\ LET g == GjkIterate(shape_a, shape_b,
                         GjkState(simplex, search_direction, verdict))
     IN  /\ simplex' = g.simplex
         /\ search_direction' = g.search_direction
         /\ verdict' = g.verdict
         /\ pc' = IF g.verdict = "running" THEN "gjk"
                  ELSE IF call = "shapes_are_overlapping" THEN "done"
                  ELSE "returned_gjk"
  /\ gjk_iterations' = gjk_iterations + 1
  /\ UNCHANGED <<shape_a, shape_b, call, overlap_line_index, amount,
                 epa_iterations, resolved, previous>>
  /\ UNCHANGED polygon_vars
  /\ UNCHANGED other_query

\* ReturnZero returning the nudge instead of v2(0, 0)
ReturnZeroAsNudge ==
  /\ pc = "returned_gjk"
  /\ verdict = "no_overlap"
  /\ amount' = NudgeAmount(shape_a, shape_b)
  /\ pc' = "done"
  /\ UNCHANGED <<shape_a, shape_b, call, simplex, search_direction, verdict,
                 overlap_line_index, gjk_iterations, epa_iterations, resolved, previous>>
  /\ UNCHANGED polygon_vars
  /\ UNCHANGED other_query

\* get_overlap_amount, lines 705-707: return v2(0, 0)
ReturnZero ==
  /\ pc = "returned_gjk"
  /\ verdict = "no_overlap"
  /\ amount' = ZeroAmount
  /\ pc' = "done"
  /\ UNCHANGED <<shape_a, shape_b, call, simplex, search_direction, verdict,
                 overlap_line_index, gjk_iterations, epa_iterations, resolved, previous>>
  /\ UNCHANGED polygon_vars
  /\ UNCHANGED other_query

\* ReturnNudge with the nudge pointing from shape_b to shape_a
ReturnNudgeTowardsA ==
  /\ pc = "returned_gjk"
  /\ verdict = "overlap"
  /\ Len(simplex) < 3
  /\ amount' = NudgeAmount(shape_b, shape_a)
  /\ pc' = "done"
  /\ UNCHANGED <<shape_a, shape_b, call, simplex, search_direction, verdict,
                 overlap_line_index, gjk_iterations, epa_iterations, resolved, previous>>
  /\ UNCHANGED polygon_vars
  /\ UNCHANGED other_query

\* get_overlap_amount, lines 709-717
ReturnNudge ==
  /\ pc = "returned_gjk"
  /\ verdict = "overlap"
  /\ Len(simplex) < 3
  /\ amount' = NudgeAmount(shape_a, shape_b)
  /\ pc' = "done"
  /\ UNCHANGED <<shape_a, shape_b, call, simplex, search_direction, verdict,
                 overlap_line_index, gjk_iterations, epa_iterations, resolved, previous>>
  /\ UNCHANGED polygon_vars
  /\ UNCHANGED other_query

\* get_overlap_amount, line 719: on to the loop
EnterLoop ==
  /\ pc = "returned_gjk"
  /\ verdict = "overlap"
  /\ Len(simplex) >= 3
  /\ pc' = "epa"
  /\ UNCHANGED <<shape_a, shape_b, call, simplex, search_direction, verdict,
                 overlap_line_index, amount, gjk_iterations, epa_iterations, resolved, previous>>
  /\ UNCHANGED polygon_vars
  /\ UNCHANGED other_query

\* a bound on the iterations the model follows
MaxEpaIterations == 8

\* one iteration of the loop of get_overlap_amount
EpaStep ==
  /\ pc = "epa"
  /\ epa_iterations < MaxEpaIterations
  /\ LET r == EpaIterate(shape_a, shape_b, simplex)
     IN  /\ simplex' = r.simplex
         /\ overlap_line_index' = r.overlap_line_index
         /\ pc' = IF r.outcome = "assert" THEN "aborted"
                  ELSE IF r.outcome = "break" THEN "epa_done"
                  ELSE "epa"
  /\ epa_iterations' = epa_iterations + 1
  /\ UNCHANGED <<shape_a, shape_b, call, search_direction, verdict, amount,
                 gjk_iterations, resolved, previous>>
  /\ UNCHANGED polygon_vars
  /\ UNCHANGED other_query

\* get_overlap_amount, lines 769-780
ReturnOverlap ==
  /\ pc = "epa_done"
  /\ \E q \in LineEnds(simplex, overlap_line_index) :
       amount' = OverlapAmount(simplex[overlap_line_index], q)
  /\ pc' = "done"
  /\ UNCHANGED <<shape_a, shape_b, call, simplex, search_direction, verdict,
                 overlap_line_index, gjk_iterations, epa_iterations, resolved, previous>>
  /\ UNCHANGED polygon_vars
  /\ UNCHANGED other_query

\* An amount is a vector of the model when its closest point has the
\* denominator 1 and its direction is along an axis.
Sgn1(a) == <<0, Sign(a)>>
IsVector(a) ==
  /\ a.den = One2
  /\ a.num.x[3] = 0 /\ a.num.x[4] = 0 /\ a.num.y[3] = 0 /\ a.num.y[4] = 0
  /\ (a.dir.x = Zero3 \/ a.dir.y = Zero3)
AsVector(a) ==
  v2(Add1(<<a.num.x[1], a.num.x[2]>>, Sgn1(a.dir.x)),
     Add1(<<a.num.y[1], a.num.y[2]>>, Sgn1(a.dir.y)))

\* The caller resolves the overlap ("Negating this amount from a->pos will
\* resolve the overlap", line 701) and is ready to ask again.
Resolve ==
  /\ pc = "done"
  /\ call = "get_overlap_amount"
  /\ ~resolved
  /\ previous = NoPrevious
  /\ amount # ZeroAmount
  /\ IsVector(amount)
  /\ shape_a' = [shape_a EXCEPT !.pos = VSub(shape_a.pos, AsVector(amount))]
  /\ resolved' = TRUE
  /\ pc' = "idle"
  /\ gjk_iterations' = 0
  /\ epa_iterations' = 0
  /\ UNCHANGED <<shape_b, call, simplex, search_direction, verdict,
                 overlap_line_index, amount, previous>>
  /\ UNCHANGED polygon_vars
  /\ UNCHANGED other_query

\* the offsets the caller moves both shapes by
Offsets == {v2(<<1, 0>>, <<0 - 1, 1>>)}

\* The caller adds t to both positions of an overlapping pair and calls
\* get_overlap_amount again.
Translate(t) ==
  /\ pc = "done"
  /\ call = "get_overlap_amount"
  /\ verdict = "overlap"
  /\ ~resolved
  /\ previous = NoPrevious
  /\ shape_a' = [shape_a EXCEPT !.pos = VAdd(shape_a.pos, t)]
  /\ shape_b' = [shape_b EXCEPT !.pos = VAdd(shape_b.pos, t)]
  /\ previous' = Previous("translated", verdict, amount)
  /\ pc' = "idle"
  /\ gjk_iterations' = 0
  /\ epa_iterations' = 0
  /\ UNCHANGED <<call, simplex, search_direction, verdict, overlap_line_index,
                 amount, resolved>>
  /\ UNCHANGED polygon_vars
  /\ UNCHANGED other_query

\* The caller calls get_overlap_amount on an overlapping pair again with
\* the arguments swapped.
Swap ==
  /\ pc = "done"
  /\ call = "get_overlap_amount"
  /\ verdict = "overlap"
  /\ ~resolved
  /\ previous = NoPrevious
  /\ shape_a' = shape_b
  /\ shape_b' = shape_a
  /\ previous' = Previous("swapped", verdict, amount)
  /\ pc' = "idle"
  /\ gjk_iterations' = 0
  /\ epa_iterations' = 0
  /\ UNCHANGED <<call, simplex, search_direction, verdict, overlap_line_index,
                 amount, resolved>>
  /\ UNCHANGED polygon_vars
  /\ UNCHANGED other_query

Next ==
  \/ \E c \in {"shapes_are_overlapping", "get_overlap_amount"} : Call(c)
  \/ GjkStep
  \/ ReturnZero
  \/ ReturnNudge
  \/ EnterLoop
  \/ EpaStep
  \/ ReturnOverlap
  \/ Resolve
  \/ \E t \in Offsets : Translate(t)
  \/ Swap

Spec == Init /\ [][Next]_vars


(***************************************************************************)
(* try_make_polygon, with contains_duplicates and is_convex.               *)
(*                                                                         *)
(* The corners of the model lie on the grid {-1, 0, 1} x {-1, 0, 1}.  The  *)
(* comparisons of is_convex are decided exactly, with one exception, the   *)
(* test dot(a, b) == 1 of line 487: a and b are normalised, and for equal  *)
(* directions the sum a.x*a.x + a.y*a.y is 1 in binary64 when the          *)
(* direction lies along an axis (a = (1, 0), ...), while for the diagonal  *)
(* directions of the grid a.x = a.y = 0.70710678118654746 and the sum is   *)
(* 0.99999999999999978.  On all 66430 corner lists of the grid with up to  *)
(* five corners the definitions below return what the compiled source      *)
(* returns.                                                                *)
(***************************************************************************)
\* lines 464-472
contains_duplicates(vertices) ==
  IF Len(vertices) = 1 THEN FALSE
  ELSE \E s0 \in 1..Len(vertices) : \E s1 \in (s0 + 1)..Len(vertices) :
         vertices[s0] = vertices[s1]

\* dot(a.normalised_or_0(), b.normalised_or_0()) == 1 (lines 484-487) for
\* differences a, b of grid corners, as binary64 decides it
DotIsOne(a, b) ==
  /\ Sign(dot(right_normal_or_0(a).v, b)) = 0
  /\ Sign(dot(a, b)) > 0
  /\ (a.x = <<0, 0>> \/ a.y = <<0, 0>>)

\* lines 478-490: some c0, c1, c2 make is_convex return false
HasStraightCorners(cs) ==
  \E c0 \in 1..Len(cs) : \E c1 \in 1..Len(cs) : \E c2 \in 1..Len(cs) :
    /\ c1 # c0
    /\ c2 # c0 /\ c2 # c1
    /\ DotIsOne(VSub(cs[c1], cs[c0]), VSub(cs[c2], cs[c1]))

\* lines 502-507: the leftmost corner, the highest of them
RECURSIVE LeftmostFrom(_, _, _)
LeftmostFrom(cs, i, leftmost_corner) ==
  IF i > Len(cs) THEN leftmost_corner
  ELSE LET corner == cs[i]
       IN  LeftmostFrom(cs, i + 1,
             IF \/ Lt(corner.x, leftmost_corner.x)
                \/ (corner.x = leftmost_corner.x /\ Lt(leftmost_corner.y, corner.y))
             THEN corner ELSE leftmost_corner)

\* CornerDotGreater with the comparison the other way round
CornerDotSmaller(s, c, h) ==
  LET dc == dot(s, c)
      dh == dot(s, h)
      l == Mul42(Sq2(dc), LengthSq(h))
      r == Mul42(Sq2(dh), LengthSq(c))
  IN  IF Sign(dc) # Sign(dh) THEN Sign(dc) < Sign(dh)
      ELSE IF Sign(dc) = 0 THEN FALSE
      ELSE IF Sign(dc) > 0 THEN Lt(l, r)
      ELSE Lt(r, l)

\* corner_dot > highest_corner_dot (line 525) for the corner directions c
\* and h, both normalised in the source: dot(s, c)/|c| > dot(s, h)/|h|
CornerDotGreater(s, c, h) ==
  LET dc == dot(s, c)
      dh == dot(s, h)
      l == Mul42(Sq2(dc), LengthSq(h))
      r == Mul42(Sq2(dh), LengthSq(c))
  IN  IF Sign(dc) # Sign(dh) THEN Sign(dc) > Sign(dh)
      ELSE IF Sign(dc) = 0 THEN FALSE
      ELSE IF Sign(dc) > 0 THEN Lt(r, l)
      ELSE Lt(l, r)

\* lines 516-531: next_corner_index, 0 for the source's -1 (no corner yet,
\* highest_corner_dot = -INFINITY)
RECURSIVE NextCornerIndex(_, _, _, _, _)
NextCornerIndex(cs, back, s, c, next_corner_index) ==
  IF c > Len(cs) THEN next_corner_index
  ELSE IF cs[c] = back THEN NextCornerIndex(cs, back, s, c + 1, next_corner_index)
  ELSE IF \/ next_corner_index = 0
          \/ CornerDotGreater(s, VSub(cs[c], back), VSub(cs[next_corner_index], back))
  THEN NextCornerIndex(cs, back, s, c + 1, c)
  ELSE NextCornerIndex(cs, back, s, c + 1, next_corner_index)

\* the values the uninitialised double shape.radius (line 560) can hold
Uninitialised == {<<k, 0, 0>> : k \in 0..2}

\* lines 570-572 run on shape.corners, the corners of the local Shape,
\* which are empty: the radius after the loop
RECURSIVE RadiusAfterLoop(_, _, _)
RadiusAfterLoop(shape_corners, i, radius) ==
  IF i > Len(shape_corners) THEN radius
  ELSE RadiusAfterLoop(shape_corners, i + 1,
         IF Lt(radius, LengthSq(shape_corners[i]))
         THEN LengthSq(shape_corners[i]) ELSE radius)

\* lines 566-576 with shape_out non-null, for the value u of the
\* uninitialised shape.radius: what *shape_out holds at return true
WrittenShape(cs, u) ==
  LET shape == ShapeValue(ORIGIN, 0, u, FALSE, <<>>)
      local_radius == RadiusAfterLoop(shape.corners, 1, shape.radius)
  IN  ShapeValue(ORIGIN, 0, shape.radius, FALSE, cs)

\* the corner lists try_make_polygon is called with
MaxCorners == 4
GridCoords == {0 - 1, 0, 1}
GridCorners == {Corner(x, y) : x \in GridCoords, y \in GridCoords}
CornerSeqs == UNION {[1..n -> GridCorners] : n \in 0..MaxCorners}

PolygonInit ==
  /\ shape_a = Shape(ORIGIN, 0, SquareCorners)
  /\ shape_b = Shape(ORIGIN, 0, SquareCorners)
  /\ call = "none"
  /\ pc = "idle"
  /\ simplex = <<>>
  /\ search_direction = Dir(ORIGIN, FALSE)
  /\ verdict = "running"
  /\ overlap_line_index = 0
  /\ amount = NoAmount
  /\ gjk_iterations = 0
  /\ epa_iterations = 0
  /\ resolved = FALSE
  /\ previous = NoPrevious
  /\ corners \in CornerSeqs
  /\ shape_out \in {"null", "shape"}
  /\ pointee = EarlierShape
  /\ convex_hull = <<>>
  /\ hull_search_direction = Dir(ORIGIN, FALSE)
  /\ polygon_pc = "idle"
  /\ polygon_result = "none"
  /\ other_query = IdleFrame

query_vars == <<shape_a, shape_b, call, pc, simplex, search_direction, verdict,
                overlap_line_index, amount, gjk_iterations, epa_iterations,
                resolved, previous, other_query>>

\* TryMakePolygon turning away fewer than two corners only
TryMakePolygonFromTwoCorners ==
  /\ polygon_pc = "idle"
  /\ polygon_result = "none"
  /\ IF \/ Len(corners) < 2
        \/ contains_duplicates(corners)
        \/ HasStraightCorners(corners)
     THEN /\ polygon_result' = "false"
          /\ polygon_pc' = "done"
          /\ UNCHANGED <<convex_hull, hull_search_direction>>
     ELSE /\ convex_hull' = <<LeftmostFrom(corners, 1, corners[1])>>
          /\ hull_search_direction' = Dir(Corner(0, 1), FALSE)
          /\ polygon_pc' = "wrapping"
          /\ UNCHANGED polygon_result
  /\ UNCHANGED <<corners, shape_out, pointee>>
  /\ UNCHANGED query_vars

\* try_make_polygon from its entry to the loop of is_convex: lines 552,
\* 556, and is_convex lines 478-513
TryMakePolygon ==
  /\ polygon_pc = "idle"
  /\ polygon_result = "none"
  /\ IF \/ Len(corners) < 3
        \/ contains_duplicates(corners)
        \/ HasStraightCorners(corners)
     THEN /\ polygon_result' = "false"
          /\ polygon_pc' = "done"
          /\ UNCHANGED <<convex_hull, hull_search_direction>>
     ELSE /\ convex_hull' = <<LeftmostFrom(corners, 1, corners[1])>>
          /\ hull_search_direction' = Dir(Corner(0, 1), FALSE)
          /\ polygon_pc' = "wrapping"
          /\ UNCHANGED polygon_result
  /\ UNCHANGED <<corners, shape_out, pointee>>
  /\ UNCHANGED query_vars

\* a bound on the iterations of the loop of is_convex the model follows
MaxWrapIterations == 8

\* One iteration of the loop of is_convex, lines 514-539, on the hull so
\* far and the search direction s: [convex_hull, search_direction,
\* complete], complete at the break of line 533
WrapIterate(cs, hull, s) ==
  LET back == hull[Len(hull)]
      next_corner_index == NextCornerIndex(cs, back, s.v, 1, 0)
  IN  IF cs[next_corner_index] = hull[1]
      THEN [convex_hull |-> hull, search_direction |-> s, complete |-> TRUE]
      ELSE [convex_hull |-> Append(hull, cs[next_corner_index]),
            search_direction |-> normalised_or_0(VSub(cs[next_corner_index], back)),
            complete |-> FALSE]

WrapStep ==
  /\ polygon_pc = "wrapping"
  /\ Len(convex_hull) < MaxWrapIterations
  /\ LET w == WrapIterate(corners, convex_hull, hull_search_direction)
     IN  /\ convex_hull' = w.convex_hull
         /\ hull_search_direction' = w.search_direction
         /\ polygon_pc' = IF w.complete THEN "wrapped" ELSE "wrapping"
  /\ UNCHANGED <<corners, shape_out, pointee, polygon_result>>
  /\ UNCHANGED query_vars

\* the loop of is_convex as a whole: the hull at the break, or the hull
\* the model stops following the loop with
RECURSIVE WrapRun(_, _, _)
WrapRun(cs, hull, s) ==
  IF Len(hull) >= MaxWrapIterations THEN hull
  ELSE LET w == WrapIterate(cs, hull, s)
       IN  IF w.complete THEN w.convex_hull
           ELSE WrapRun(cs, w.convex_hull, w.search_direction)

\* is_convex, lines 474-542, and the return value of try_make_polygon
\* with a non-null shape_out, lines 551-580
is_convex(cs) ==
  /\ ~HasStraightCorners(cs)
  /\ Len(cs) = Len(WrapRun(cs, <<LeftmostFrom(cs, 1, cs[1])>>, Dir(Corner(0, 1), FALSE)))

try_make_polygon(cs) ==
  /\ Len(cs) >= 3
  /\ ~contains_duplicates(cs)
  /\ is_convex(cs)

\* FinishPolygon without the test of shape_out
FinishPolygonThroughNull ==
  /\ polygon_pc = "wrapped"
  /\ IF Len(corners) # Len(convex_hull)
     THEN polygon_result' = "false" /\ UNCHANGED pointee
     ELSE /\ \E u \in Uninitialised : pointee' = WrittenShape(corners, u)
          /\ polygon_result' = "true"
  /\ polygon_pc' = "done"
  /\ UNCHANGED <<corners, shape_out, convex_hull, hull_search_direction>>
  /\ UNCHANGED query_vars

\* FinishPolygon writing *shape_out before it looks at the hull
FinishPolygonWritingFirst ==
  /\ polygon_pc = "wrapped"
  /\ IF shape_out = "shape"
     THEN /\ \E u \in Uninitialised : pointee' = WrittenShape(corners, u)
          /\ polygon_result' = IF Len(corners) # Len(convex_hull) THEN "false" ELSE "true"
     ELSE polygon_result' = "false" /\ UNCHANGED pointee
  /\ polygon_pc' = "done"
  /\ UNCHANGED <<corners, shape_out, convex_hull, hull_search_direction>>
  /\ UNCHANGED query_vars

\* the return of is_convex (line 541) and the rest of try_make_polygon
\* (lines 562-579)
FinishPolygon ==
  /\ polygon_pc = "wrapped"
  /\ IF Len(corners) # Len(convex_hull)
     THEN polygon_result' = "false" /\ UNCHANGED pointee
     ELSE IF shape_out = "shape"
     THEN /\ \E u \in Uninitialised : pointee' = WrittenShape(corners, u)
          /\ polygon_result' = "true"
     ELSE polygon_result' = "false" /\ UNCHANGED pointee
  /\ polygon_pc' = "done"
  /\ UNCHANGED <<corners, shape_out, convex_hull, hull_search_direction>>
  /\ UNCHANGED query_vars

PolygonNext ==
  \/ TryMakePolygon
  \/ WrapStep
  \/ FinishPolygon

PolygonSpec == PolygonInit /\ [][PolygonNext]_vars

(***************************************************************************)
(* Two queries at the same time.  The caller holds the two shapes and runs *)
(* one query on (shape_a, shape_b), whose locals are the variables above,  *)
(* and a second one on (shape_b, shape_a), whose locals are other_query.   *)
(* The two run one loop iteration at a time, in any order.  Neither        *)
(* shapes_are_overlapping nor get_overlap_amount of lines 673-781 assigns  *)
(* to a Shape or to a variable of the namespace: they read the shapes      *)
(* through get_minkowski_diffed_corner and write their own locals.         *)
(***************************************************************************)
\* the shapes two queries run on at the same time: whole positions, unrotated
ConcurrentPairs ==
  {<<Shape(v2(Coord(x, 0), Coord(y, 0)), 0, ca), Shape(ORIGIN, 0, cb)>> :
     x \in (0 - MaxCoord)..MaxCoord, y \in (0 - MaxCoord)..MaxCoord,
     ca \in CornerLists, cb \in CornerLists}

ConcurrentInit ==
  /\ \E pair \in ConcurrentPairs : shape_a = pair[1] /\ shape_b = pair[2]
  /\ call = "none"
  /\ pc = "idle"
  /\ simplex = <<>>
  /\ search_direction = Dir(ORIGIN, FALSE)
  /\ verdict = "running"
  /\ overlap_line_index = 0
  /\ amount = NoAmount
  /\ gjk_iterations = 0
  /\ epa_iterations = 0
  /\ resolved = FALSE
  /\ previous = NoPrevious
  /\ corners = <<>>
  /\ shape_out = "null"
  /\ pointee = EarlierShape
  /\ convex_hull = <<>>
  /\ hull_search_direction = Dir(ORIGIN, FALSE)
  /\ polygon_pc = "idle"
  /\ polygon_result = "none"
  /\ other_query = IdleFrame

\* FrameSteps whose entry also moves the first shape onto the second
FrameStepsMovingShape(a, b, f) ==
  IF f.pc = "idle"
  THEN {<<Frame(c, "gjk", GjkStart(a, b).simplex, GjkStart(a, b).search_direction,
                GjkStart(a, b).verdict, 0, NoAmount),
          [a EXCEPT !.pos = b.pos], b>> :
          c \in {"shapes_are_overlapping", "get_overlap_amount"}}
  ELSE {}

\* The steps of a query on the shapes a and b from the frame f, as triples
\* <<frame, a, b>> of the frame and the shapes after the step: entry and
\* lines 680-684, one iteration of the loop of lines 686-697,
\* the returns of lines 705-717, one iteration of the loop of lines 721-767,
\* and lines 769-780.
FrameSteps(a, b, f) ==
  IF f.pc = "idle"
  THEN {<<Frame(c, "gjk", GjkStart(a, b).simplex, GjkStart(a, b).search_direction,
                GjkStart(a, b).verdict, 0, NoAmount), a, b>> :
          c \in {"shapes_are_overlapping", "get_overlap_amount"}}
  ELSE IF f.pc = "gjk"
  THEN LET g == GjkIterate(a, b, GjkState(f.simplex, f.search_direction, f.verdict))
       IN  {<<[f EXCEPT !.simplex = g.simplex,
                        !.search_direction = g.search_direction,
                        !.verdict = g.verdict,
                        !.pc = IF g.verdict = "running" THEN "gjk"
                               ELSE IF f.call = "shapes_are_overlapping" THEN "done"
                               ELSE "returned_gjk"], a, b>>}
  ELSE IF f.pc = "returned_gjk"
  THEN IF f.verdict = "no_overlap"
       THEN {<<[f EXCEPT !.amount = ZeroAmount, !.pc = "done"], a, b>>}
       ELSE IF Len(f.simplex) < 3
       THEN {<<[f EXCEPT !.amount = NudgeAmount(a, b), !.pc = "done"], a, b>>}
       ELSE {<<[f EXCEPT !.pc = "epa"], a, b>>}
  ELSE IF f.pc = "epa"
  THEN LET r == EpaIterate(a, b, f.simplex)
       IN  {<<[f EXCEPT !.simplex = r.simplex,
                        !.overlap_line_index = r.overlap_line_index,
                        !.pc = IF r.outcome = "assert" THEN "aborted"
                               ELSE IF r.outcome = "break" THEN "epa_done"
                               ELSE "epa"], a, b>>}
  ELSE IF f.pc = "epa_done"
  THEN {<<[f EXCEPT !.amount = OverlapAmount(f.simplex[f.overlap_line_index], q),
                    !.pc = "done"], a, b>> :
          q \in LineEnds(f.simplex, f.overlap_line_index)}
  ELSE {}

\* a step of the second query, on (shape_b, shape_a)
OtherQueryStep ==
  /\ pc # "aborted"
  /\ \E t \in FrameSteps(shape_b, shape_a, other_query) :
       /\ other_query' = t[1]
       /\ shape_b' = t[2]
       /\ shape_a' = t[3]
  /\ UNCHANGED <<call, pc, simplex, search_direction, verdict, overlap_line_index,
                 amount, gjk_iterations, epa_iterations, resolved, previous>>
  /\ UNCHANGED polygon_vars

\* a step of the first query; an assert that failed has ended the process
QueryStep ==
  /\ other_query.pc # "aborted"
  /\ \/ \E c \in {"shapes_are_overlapping", "get_overlap_amount"} : Call(c)
     \/ GjkStep
     \/ ReturnZero
     \/ ReturnNudge
     \/ EnterLoop
     \/ EpaStep
     \/ ReturnOverlap

ConcurrentNext ==
  \/ QueryStep
  \/ OtherQueryStep

ConcurrentSpec == ConcurrentInit /\ [][ConcurrentNext]_vars

\* the loop of lines 721-767 run to its end: the last EpaIterate
RECURSIVE EpaRun(_, _, _, _)
EpaRun(a, b, polytope, n) ==
  LET r == EpaIterate(a, b, polytope)
  IN  IF r.outcome # "continue" THEN r
      ELSE IF n = 0 THEN [r EXCEPT !.outcome = "unfinished"]
      ELSE EpaRun(a, b, r.simplex, n - 1)

\* get_overlap_amount(a, b) called alone: the amounts it can return, none
\* when the assert of line 744 fails
get_overlap_amount(a, b) ==
  LET g == shapes_are_overlapping(a, b)
  IN  IF g.verdict = "no_overlap" THEN {ZeroAmount}
      ELSE IF g.verdict # "overlap" THEN {}
      ELSE IF Len(g.simplex) < 3 THEN {NudgeAmount(a, b)}
      ELSE LET r == EpaRun(a, b, g.simplex, MaxEpaIterations)
           IN  IF r.outcome # "break" THEN {}
               ELSE {OverlapAmount(r.simplex[r.overlap_line_index], q) :
                       q \in LineEnds(r.simplex, r.overlap_line_index)}


(***************************************************************************)
(* Geometry the claims are stated with: the Minkowski difference of two    *)
(* polygons, by the outward normals of its edges, and bounding disks.      *)

(***************************************************************************)
(* improve_2_simplex as a function of its arguments: a caller hands it a   *)
(* simplex of two points, each coordinate a whole number or one line       *)
(* thickness off it.                                                       *)
(***************************************************************************)
\* the coordinates of the points handed to improve_2_simplex
PointCoords == {Coord(k, j) : k \in {0 - 1, 0, 1}, j \in {0 - 1, 0, 1}}
Points2 == {v2(x, y) : x \in PointCoords, y \in PointCoords}

ImproveInit ==
  /\ shape_a = Shape(ORIGIN, 0, SquareCorners)
  /\ shape_b = Shape(ORIGIN, 0, SquareCorners)
  /\ call = "improve_2_simplex"
  /\ pc = "idle"
  /\ \E a \in Points2, b \in Points2 : simplex = <<a, b>>
  /\ search_direction = Dir(ORIGIN, FALSE)
  /\ verdict = "running"
  /\ overlap_line_index = 0
  /\ amount = NoAmount
  /\ gjk_iterations = 0
  /\ epa_iterations = 0
  /\ resolved = FALSE
  /\ previous = NoPrevious
  /\ corners = <<>>
  /\ shape_out = "null"
  /\ pointee = EarlierShape
  /\ convex_hull = <<>>
  /\ hull_search_direction = Dir(ORIGIN, FALSE)
  /\ polygon_pc = "idle"
  /\ polygon_result = "none"
  /\ other_query = IdleFrame

\* the call improve_2_simplex(simplex, search_direction); verdict is
\* "overlap" when it returns true
ImproveTwoSimplex ==
  /\ pc = "idle"
  /\ call = "improve_2_simplex"
  /\ LET r == improve_2_simplex(simplex, search_direction)
     IN  /\ simplex' = r.simplex
         /\ search_direction' = r.search_direction
         /\ verdict' = IF r.inside THEN "overlap" ELSE "running"
  /\ pc' = "done"
  /\ UNCHANGED <<shape_a, shape_b, call, overlap_line_index, amount, gjk_iterations,
                 epa_iterations, resolved, previous>>
  /\ UNCHANGED polygon_vars
  /\ UNCHANGED other_query

ImproveNext == ImproveTwoSimplex

ImproveSpec == ImproveInit /\ [][ImproveNext]_vars

(***************************************************************************)
WorldCorners(shape) ==
  [i \in 1..Len(shape.corners) |->
     VAdd(shape.pos, rotated(shape.corners[i], shape.angle))]

\* the outward normals (not normalised) of the edges of a convex polygon
OutwardNormals(cs) ==
  {LET n == Len(cs)
       a == cs[i]
       b == cs[(i % n) + 1]
       c == cs[((i + 1) % n) + 1]
       r == right_normal_or_0(VSub(b, a)).v
   IN  IF Sign(dot(r, VSub(c, a))) < 0 THEN r ELSE VNeg(r) : i \in 1..Len(cs)}

\* the edges of the Minkowski difference of a and b have the outward
\* normals of a and the inward normals of b
DifferenceNormals(a, b) ==
  OutwardNormals(WorldCorners(a))
    \cup {VNeg(n) : n \in OutwardNormals(WorldCorners(b))}

\* the largest dot(p, n) over the points p of the Minkowski difference
RECURSIVE MaxDot(_, _, _)
MaxDot(cs, n, i) ==
  IF i = Len(cs) THEN dot(cs[i], n)
  ELSE LET rest == MaxDot(cs, n, i + 1)
           here == dot(cs[i], n)
       IN  IF Lt(here, rest) THEN rest ELSE here

SupportValue(a, b, n) ==
  Add2(MaxDot(WorldCorners(a), n, 1), MaxDot(WorldCorners(b), VNeg(n), 1))

\* the origin is inside the Minkowski difference, farther than
\* LINE_THICKNESS from every edge of it
OriginDeepInside(a, b) ==
  \A n \in DifferenceNormals(a, b) :
    LET h == SupportValue(a, b, n)
    IN  Sign(h) > 0 /\ Lt(ThicknessSqTimes(LengthSq(n)), Sq2(h))

\* the origin is outside the Minkowski difference or on its boundary
OriginNotInside(a, b) ==
  \E n \in DifferenceNormals(a, b) : Sign(SupportValue(a, b, n)) <= 0

\* the square of the bounding radius: the largest squared corner length
RECURSIVE MaxLengthSq(_, _)
MaxLengthSq(cs, i) ==
  IF i = Len(cs) THEN LengthSq(cs[i])
  ELSE LET rest == MaxLengthSq(cs, i + 1)
           here == LengthSq(cs[i])
       IN  IF Lt(here, rest) THEN rest ELSE here

\* |a.pos - b.pos| > ra + rb, decided on squares:
\* d - ra^2 - rb^2 > 2 ra rb  with d = |a.pos - b.pos|^2
Sub2(x, y) == <<x[1] - y[1], x[2] - y[2], x[3] - y[3]>>
Mul22(x, y) ==
  <<x[1] * y[1], x[1] * y[2] + x[2] * y[1], x[1] * y[3] + x[2] * y[2] + x[3] * y[1],
    x[2] * y[3] + x[3] * y[2], x[3] * y[3]>>
BoundingDisksDisjoint(a, b) ==
  LET ra2 == MaxLengthSq(a.corners, 1)
      rb2 == MaxLengthSq(b.corners, 1)
      d == LengthSq(VSub(a.pos, b.pos))
      rest == Sub2(Sub2(d, ra2), rb2)
      four == Mul22(<<4, 0, 0>>, Mul22(ra2, rb2))
  IN  Sign(rest) > 0
      /\ Lt(<<four[1], four[2], four[3], four[4], four[5]>>, Sq2(rest))

(***************************************************************************)
(* shapes_are_close (src/unnamed/part_001:929-934), the test of the        *)
(* bounding boxes that the version of shapes_are_overlapping at line 936   *)
(* of that file makes first.  The shapes it is given carry the field       *)
(* radius, held as its square as in ShapeValue.                            *)
(***************************************************************************)
\* d <= ra + rb for the coordinate d and the squares ra2, rb2 of the radii:
\* d <= 0, or d^2 - ra^2 - rb^2 <= 2 ra rb
AtMostSumOfRadii(d, ra2, rb2) ==
  LET rest == Sub2(Sub2(Mul11(d, d), ra2), rb2)
  IN  \/ Sign(d) <= 0
      \/ Sign(rest) <= 0
      \/ Le(Sq2(rest), Mul22(<<4, 0, 0>>, Mul22(ra2, rb2)))

\* shapes_are_close leaving out the radius of b
ShapesAreCloseByRadiusOfA(a, b) ==
  /\ AtMostSumOfRadii(Sub1(b.pos.x, a.pos.x), a.radius, <<0, 0, 0>>)
  /\ AtMostSumOfRadii(Sub1(a.pos.x, b.pos.x), a.radius, <<0, 0, 0>>)
  /\ AtMostSumOfRadii(Sub1(b.pos.y, a.pos.y), a.radius, <<0, 0, 0>>)
  /\ AtMostSumOfRadii(Sub1(a.pos.y, b.pos.y), a.radius, <<0, 0, 0>>)

shapes_are_close(a, b) ==
  /\ AtMostSumOfRadii(Sub1(b.pos.x, a.pos.x), a.radius, b.radius)
  /\ AtMostSumOfRadii(Sub1(a.pos.x, b.pos.x), a.radius, b.radius)
  /\ AtMostSumOfRadii(Sub1(b.pos.y, a.pos.y), a.radius, b.radius)
  /\ AtMostSumOfRadii(Sub1(a.pos.y, b.pos.y), a.radius, b.radius)

\* numbers with any number of coefficients
PCoef(p, i) == IF i <= Len(p) THEN p[i] ELSE 0
PSub(p, q) ==
  [i \in 1..(IF Len(p) < Len(q) THEN Len(q) ELSE Len(p)) |-> PCoef(p, i) - PCoef(q, i)]
RECURSIVE PMulCoef(_, _, _, _)
PMulCoef(p, q, k, i) ==
  IF i > Len(p) \/ i > k THEN 0
  ELSE p[i] * PCoef(q, k - i + 1) + PMulCoef(p, q, k, i + 1)
PMul(p, q) == [k \in 1..(Len(p) + Len(q) - 1) |-> PMulCoef(p, q, k, 1)]

\* |a.pos - b.pos| > ra + rb + LINE_THICKNESS, decided on squares.  With
\* d = |a.pos - b.pos|^2, e = LINE_THICKNESS and k = d + e^2 - ra^2 - rb^2:
\*   k > 2 e sqrt(d) + 2 ra rb, that is k > 0 and
\*   m = k^2 - 4 e^2 d - 4 ra^2 rb^2 > 8 e ra rb sqrt(d), that is m > 0 and
\*   m^2 > 64 e^2 ra^2 rb^2 d
DisksFartherApartThanThickness(a, b) ==
  LET ra2 == MaxLengthSq(a.corners, 1)
      rb2 == MaxLengthSq(b.corners, 1)
      d == LengthSq(VSub(a.pos, b.pos))
      e2 == <<0, 0, 1>>
      k == PSub(PSub(PSub(d, ra2), rb2), <<0, 0, 0 - 1>>)
      m == PSub(PSub(PMul(k, k), PMul(<<4>>, PMul(e2, d))),
                PMul(<<4>>, PMul(ra2, rb2)))
      rhs == PMul(<<64>>, PMul(e2, PMul(PMul(ra2, rb2), d)))
  IN  Sign(k) > 0 /\ Sign(m) > 0 /\ Sign(PSub(PMul(m, m), rhs)) > 0

Returned == pc = "done"

\* get_overlap_amount has returned to a caller asking for the first time
FirstAnswer ==
  Returned /\ call = "get_overlap_amount" /\ ~resolved /\ previous = NoPrevious

(***************************************************************************)
(* C1.  Whenever get_overlap_amount(A,B) returns a nonzero vector v,       *)
(* shapes_are_overlapping(A',B) is false for A' = A with pos - v,          *)
(* whether v comes from the loop or is the nudge of LINE_THICKNESS.        *)
(***************************************************************************)
C1_ResolutionSeparates ==
  (Returned /\ resolved) => verdict = "no_overlap"

(***************************************************************************)
(* C2.  Whenever shapes_are_overlapping(A,B) returns true,                 *)
(* get_overlap_amount(A,B) returns a vector that is not (0,0), for every   *)
(* simplex GJK hands over.                                                 *)
(***************************************************************************)
C2_OverlapGivesNonzero ==
  (call = "get_overlap_amount" /\ verdict = "overlap" /\ pc \in {"done", "aborted"})
    => (pc = "done" /\ amount # ZeroAmount)

(***************************************************************************)
(* C3.  Whenever shapes_are_overlapping returns false, get_overlap_amount  *)
(* returns exactly (0,0), without running the expansion loop.              *)
(***************************************************************************)
C3_NoOverlapGivesZero ==
  (Returned /\ call = "get_overlap_amount" /\ verdict = "no_overlap")
    => /\ amount.num = Zero3V
       /\ amount.dir = Zero3V
       /\ amount.den # <<0, 0, 0>>
       /\ epa_iterations = 0

C3_Witness ==
  /\ Returned /\ call = "get_overlap_amount" /\ verdict = "no_overlap"
  /\ amount = ZeroAmount
  /\ gjk_iterations > 1

(***************************************************************************)
(* C4.  For every pair of valid shapes whose Minkowski difference contains *)
(* the origin at a distance greater than EPS from its boundary,            *)
(* shapes_are_overlapping returns true.                                    *)
(***************************************************************************)
C4_DeepOverlapDetected ==
  (verdict # "running" /\ OriginDeepInside(shape_a, shape_b))
    => verdict = "overlap"

(***************************************************************************)
(* C5.  For every pair of valid shapes whose bounding disks do not         *)
(* overlap, shapes_are_overlapping returns false and get_overlap_amount    *)
(* returns (0,0).                                                          *)
(***************************************************************************)
C5_DisjointDisksNoOverlap ==
  (pc # "idle" /\ ~resolved /\ BoundingDisksDisjoint(shape_a, shape_b))
    => /\ verdict # "overlap"
       /\ pc \notin {"epa", "epa_done", "aborted"}
       /\ (Returned /\ call = "get_overlap_amount")
            => (amount.num = Zero3V /\ amount.dir = Zero3V)

(***************************************************************************)
(* C5, as the code has it.  For every pair of polygons whose bounding      *)
(* disks are more than LINE_THICKNESS apart, shapes_are_overlapping        *)
(* returns false and get_overlap_amount returns (0,0) without entering     *)
(* its loop.                                                               *)
(***************************************************************************)
C5_DisksApartNoOverlap ==
  (pc # "idle" /\ ~resolved /\ DisksFartherApartThanThickness(shape_a, shape_b))
    => /\ verdict # "overlap"
       /\ pc \notin {"epa", "epa_done", "aborted"}
       /\ (Returned /\ call = "get_overlap_amount")
            => (amount.num = Zero3V /\ amount.dir = Zero3V)

C5_Witness ==
  /\ DisksFartherApartThanThickness(shape_a, shape_b)
  /\ ~resolved
  /\ Returned /\ call = "get_overlap_amount"
  /\ verdict = "no_overlap"
  /\ amount = ZeroAmount
  /\ Len(shape_a.corners) = 3

WithinTenThicknesses(c) == c[1] = 0 /\ 0 - 10 <= c[2] /\ c[2] <= 10

C7_PenetrationAntiSymmetric ==
  (Returned /\ previous.how = "swapped" /\ IsVector(previous.amount) /\ IsVector(amount))
    => LET v == AsVector(previous.amount)
           w == AsVector(amount)
       IN  /\ WithinTenThicknesses(Add1(v.x, w.x))
           /\ WithinTenThicknesses(Add1(v.y, w.y))

(***************************************************************************)
(* C8.  shapes_are_overlapping and get_overlap_amount return the same      *)
(* results for (A,B) and for the pair with the same offset added to both   *)
(* positions.                                                              *)
(***************************************************************************)
Translated(shape, t) == [shape EXCEPT !.pos = VAdd(shape.pos, t)]

C8_TranslationInvariant ==
  /\ (Returned /\ ~resolved /\ previous = NoPrevious)
       => \A t \in Offsets :
            shapes_are_overlapping(Translated(shape_a, t), Translated(shape_b, t)).verdict
              = verdict
  /\ (Returned /\ previous.how = "translated")
       => (verdict = previous.verdict /\ amount = previous.amount)

(***************************************************************************)
(* C9.  When GJK hands over three vertices, the vector returned by         *)
(* get_overlap_amount is the point of the boundary of the Minkowski        *)
(* difference nearest to the origin, lengthened by LINE_THICKNESS.         *)
(***************************************************************************)
\* the edge normals n whose edge is nearest to the origin, the origin being
\* inside: h(n) / |n| is least
NearestNormals(a, b) ==
  {n \in DifferenceNormals(a, b) :
     \A m \in DifferenceNormals(a, b) :
       Le(Mul42(Sq2(SupportValue(a, b, n)), LengthSq(m)),
          Mul42(Sq2(SupportValue(a, b, m)), LengthSq(n)))}

\* amount is n * h(n) / |n|^2 lengthened along n
AmountIsFootOf(a, b, amt, n) ==
  LET h == SupportValue(a, b, n)
      l == LengthSq(n)
  IN  /\ PMul(amt.num.x, l) = PMul(PMul(n.x, h), amt.den)
      /\ PMul(amt.num.y, l) = PMul(PMul(n.y, h), amt.den)
      /\ PMul(amt.dir.x, n.y) = PMul(amt.dir.y, n.x)
      /\ Sign(PSub(PMul(amt.dir.x, n.x), PMul(<<0 - 1>>, PMul(amt.dir.y, n.y)))) > 0

C9_MinimumTranslation ==
  (FirstAnswer /\ epa_iterations > 0 /\ ~OriginNotInside(shape_a, shape_b))
    => \E n \in NearestNormals(shape_a, shape_b) :
         AmountIsFootOf(shape_a, shape_b, amount, n)

(***************************************************************************)
(* C10.  For two identical unrotated squares of side w, B at the origin    *)
(* and A offset by d along exactly one axis with 0 < |d| < w,              *)
(* get_overlap_amount(A,B) is exactly zero on the other axis, points from  *)
(* A toward B along the offset axis, and its length exceeds w - |d| by     *)
(* more than 0 and less than 1e-6 (ten times LINE_THICKNESS).              *)
(***************************************************************************)
Abs1(a) == IF Sign(a) < 0 THEN Neg1(a) ELSE a

SquaresOffsetAlongAxis ==
  /\ Len(shape_a.corners) = 4 /\ shape_a.corners = shape_b.corners
  /\ shape_a.angle = 0 /\ shape_b.angle = 0
  /\ shape_b.pos = ORIGIN
  /\ (shape_a.pos.x = <<0, 0>>) # (shape_a.pos.y = <<0, 0>>)
  /\ LET w == Add1(shape_a.corners[3].x, shape_a.corners[3].x)
     IN  Lt(Abs1(Add1(shape_a.pos.x, shape_a.pos.y)), w)

C10_OffsetSquares ==
  (FirstAnswer /\ SquaresOffsetAlongAxis)
    => /\ IsVector(amount)
       /\ LET v == AsVector(amount)
              d == Add1(shape_a.pos.x, shape_a.pos.y)
              w == Add1(shape_a.corners[3].x, shape_a.corners[3].x)
              along == IF shape_a.pos.x = <<0, 0>> THEN v.y ELSE v.x
              other == IF shape_a.pos.x = <<0, 0>> THEN v.x ELSE v.y
              len == IF Sign(d) > 0 THEN Neg1(along) ELSE along
              excess == Sub1(len, Sub1(w, Abs1(d)))
          IN  /\ other = <<0, 0>>
              /\ Sign(excess) > 0
              /\ Lt(excess, <<0, 10>>)


C12_ExpansionLoopReturns ==
  /\ pc # "aborted"
  /\ pc = "epa" => epa_iterations < MaxEpaIterations
  /\ pc = "epa_done" => overlap_line_index \in 1..Len(simplex)

(***************************************************************************)
(* Geometry the claims on try_make_polygon are stated with, decided on     *)
(* exact cross products.                                                   *)
(***************************************************************************)
Points(cs) == {cs[i] : i \in 1..Len(cs)}

HasEqualCorners(cs) == \E i \in 1..Len(cs) : \E j \in 1..Len(cs) : i # j /\ cs[i] = cs[j]

\* the side of the line from a to b that c lies on: 1, -1, or 0 on the line
Turn(a, b, c) == Sign(dot(right_normal_or_0(VSub(b, a)).v, VSub(c, a)))

HasCollinearCorners(cs) ==
  \E i \in 1..Len(cs) : \E j \in (i + 1)..Len(cs) : \E k \in (j + 1)..Len(cs) :
    Turn(cs[i], cs[j], cs[k]) = 0

\* three or more distinct corners, no three on a line
GeneralPosition(cs) ==
  Len(cs) >= 3 /\ ~HasEqualCorners(cs) /\ ~HasCollinearCorners(cs)

\* the vertices of the convex hull of corners in general position: the
\* corners with a line through them and another corner that has all the
\* rest strictly on one side
HullVertices(cs) ==
  {cs[i] : i \in {i \in 1..Len(cs) :
     \E j \in 1..Len(cs) :
       /\ j # i
       /\ \A k \in 1..Len(cs) : k \in {i, j} \/ Turn(cs[i], cs[j], cs[k]) > 0}}

\* some corner lies strictly inside a triangle of three others
SomeCornerInside(cs) ==
  \E p \in 1..Len(cs) : \E a \in 1..Len(cs) : \E b \in (a + 1)..Len(cs) :
    \E c \in (b + 1)..Len(cs) :
      /\ p \notin {a, b, c}
      /\ Turn(cs[a], cs[b], cs[p]) # 0
      /\ Turn(cs[a], cs[b], cs[p]) = Turn(cs[b], cs[c], cs[p])
      /\ Turn(cs[b], cs[c], cs[p]) = Turn(cs[c], cs[a], cs[p])

\* the sequence winds the hull: every edge from a corner to the next has
\* all other corners strictly on the same side
WindsHull(cs) ==
  \E side \in {0 - 1, 1} :
    \A i \in 1..Len(cs) :
      \A r \in Points(cs) \ {cs[i], cs[NextIndex(cs, i)]} :
        Turn(cs[i], cs[NextIndex(cs, i)], r) = side

Reversed(cs) == [i \in 1..Len(cs) |-> cs[Len(cs) + 1 - i]]
Rotated(cs, k) == [i \in 1..Len(cs) |-> cs[((i + k - 1) % Len(cs)) + 1]]

(***************************************************************************)
(* C13.  try_make_polygon returns false for every corner list with fewer   *)
(* than three corners and for every list with two equal corners, wherever  *)
(* they sit: such a call never returns true, and once it has returned it   *)
(* has returned false.                                                     *)
(***************************************************************************)
C13_FewOrEqualCornersRejected ==
  (Len(corners) < 3 \/ HasEqualCorners(corners)) =>
    /\ polygon_result # "true"
    /\ polygon_pc # "idle" => polygon_result = "false"

\* four corners, the first and the last equal, the first three a polygon
\* of their own
C13_Witness ==
  /\ polygon_result = "false"
  /\ shape_out = "shape"
  /\ Len(corners) = 4
  /\ corners[1] = corners[4]
  /\ try_make_polygon(SubSeq(corners, 1, 3))

(***************************************************************************)
(* C14.  try_make_polygon returns false whenever three of the corners are  *)
(* collinear, consecutive in the sequence or not: a call with three        *)
(* corners on a line never returns true.                                   *)
(***************************************************************************)
C14_CollinearCornersRejected ==
  HasCollinearCorners(corners) => polygon_result # "true"

(***************************************************************************)
(* C15.  For three or more distinct corners with no three collinear the    *)
(* call enters the loop of is_convex and the loop ends, within the         *)
(* iterations the model follows and with no more hull entries than         *)
(* corners, and convex_hull then holds                                     *)
(* each vertex of the convex hull of the corners once; a call with a       *)
(* corner strictly inside the hull of the others returns false.            *)
(***************************************************************************)
C15_WrapCollectsHull ==
  (polygon_pc # "idle" /\ GeneralPosition(corners)) =>
    /\ convex_hull # <<>>
    /\ polygon_pc = "wrapping" =>
         /\ Len(convex_hull) < MaxWrapIterations
         /\ Len(convex_hull) <= Len(corners)
    /\ polygon_pc \in {"wrapped", "done"} =>
         LET hull_vertices == HullVertices(corners)
         IN  /\ Points(convex_hull) = hull_vertices
             /\ Len(convex_hull) = Cardinality(hull_vertices)
    /\ (polygon_pc = "done" /\ SomeCornerInside(corners)) => polygon_result = "false"

\* four corners, one inside the triangle of the others, turned away
C15_Witness ==
  /\ polygon_pc = "done"
  /\ polygon_result = "false"
  /\ shape_out = "shape"
  /\ GeneralPosition(corners)
  /\ Len(corners) = 4
  /\ SomeCornerInside(corners)
  /\ Len(convex_hull) = 3

(***************************************************************************)
(* C16.  try_make_polygon returns false for corners that are all vertices  *)
(* of their convex hull but whose sequence does not wind the hull: such a  *)
(* call never returns true.                                                *)
(***************************************************************************)
C16_UnwoundOrderRejected ==
  ( /\ GeneralPosition(corners)
    /\ HullVertices(corners) = Points(corners)
    /\ ~WindsHull(corners) ) => polygon_result # "true"

(***************************************************************************)
(* C17.  Winding invariance: when try_make_polygon has accepted a corner   *)
(* sequence, it accepts the reversed sequence and every rotation of it.    *)
(***************************************************************************)
C17_WindingInvariance ==
  polygon_result = "true" =>
    /\ try_make_polygon(Reversed(corners))
    /\ \A k \in 1..Len(corners) : try_make_polygon(Rotated(corners, k))

(***************************************************************************)
(* C18.  try_make_polygon called with a null shape_out returns false,      *)
(* also for corners it would accept, and writes nothing through the        *)
(* pointer.                                                                *)
(***************************************************************************)
C18_NullShapeOutRejected ==
  shape_out = "null" =>
    /\ polygon_result # "true"
    /\ polygon_pc = "done" => polygon_result = "false"
    /\ pointee = EarlierShape

\* a null shape_out with corners that are accepted otherwise
C18_Witness ==
  /\ shape_out = "null"
  /\ polygon_pc = "done"
  /\ polygon_result = "false"
  /\ try_make_polygon(corners)
  /\ Len(convex_hull) = Len(corners)

(***************************************************************************)
(* C19.  No partial shape on failure: when try_make_polygon has returned   *)
(* false, the Shape shape_out points to has every field as before the      *)
(* call.                                                                   *)
(***************************************************************************)
C19_FailureWritesNothing ==
  polygon_result = "false" => pointee = EarlierShape

\* a failure found last of all, by the count of the hull, with a shape to
\* write to
C19_Witness ==
  /\ polygon_result = "false"
  /\ shape_out = "shape"
  /\ Len(convex_hull) >= 3
  /\ Len(convex_hull) < Len(corners)
  /\ pointee = EarlierShape

(***************************************************************************)
(* C20.  After try_make_polygon has returned true the shape holds the      *)
(* given corners, pos = (0,0), angle = 0, is_circle = false, and its       *)
(* radius is the largest distance of a corner from the local origin.       *)
(***************************************************************************)
C20_ProducedShape ==
  polygon_result = "true" =>
    pointee = ShapeValue(ORIGIN, 0, MaxLengthSq(corners, 1), FALSE, corners)

(***************************************************************************)
(* C21  Queries share no mutable state.                                    *)
(***************************************************************************)
\* the frame f of a query on a and b holds what the query returns when it
\* runs alone: the same verdict, one of the same amounts, and a failed
\* assert only where the query alone fails it
SameAsAlone(a, b, f) ==
  /\ f.pc = "done" =>
       /\ f.verdict = shapes_are_overlapping(a, b).verdict
       /\ f.call = "get_overlap_amount" => f.amount \in get_overlap_amount(a, b)
  /\ f.pc = "aborted" => get_overlap_amount(a, b) = {}

\* the locals of the first query as a frame
FirstFrame ==
  Frame(call, pc, simplex, search_direction, verdict, overlap_line_index, amount)

EdgeSigns(s) ==
  LET ab == VSub(s[2], s[1])
      bc == VSub(s[3], s[2])
      ca == VSub(s[1], s[3])
  IN  <<Sign(dot(normal_in_direction_or_0(ab, ca).v, VSub(ORIGIN, s[1]))),
        Sign(dot(normal_in_direction_or_0(bc, ab).v, VSub(ORIGIN, s[2]))),
        Sign(dot(normal_in_direction_or_0(ca, bc).v, VSub(ORIGIN, s[3])))>>

\* shapes_are_overlapping has just returned true with three vertices
OverlapWithTriangle ==
  /\ verdict = "overlap"
  /\ Len(simplex) = 3
  /\ \/ pc = "returned_gjk"
     \/ pc = "done" /\ call = "shapes_are_overlapping"

\* C22: an overlap that improve_simplex finds on a 3-point simplex one of
\* whose three inner products is exactly zero is reported with a simplex
\* of two vertices: the tie takes the 2-point path, so no simplex of three
\* vertices handed out on overlap has a zero inner product.
C22_TiesTakeTwoPointPath ==
  OverlapWithTriangle => \A i \in 1..3 : EdgeSigns(simplex)[i] # 0

(***************************************************************************)
(* C23  improve_2_simplex.                                                 *)
(***************************************************************************)
\* a.x * b.y - a.y * b.x: twice the area of the triangle origin, a, b
Cross(a, b) == Sub2(Mul11(a.x, b.y), Mul11(a.y, b.x))

\* the origin projects onto the line a, b between a and b
ProjectsBetween(a, b) ==
  /\ Sign(dot(VNeg(a), VSub(b, a))) >= 0
  /\ Sign(dot(VNeg(b), VSub(a, b))) >= 0

\* the distance from the origin to the line a, b is at most LINE_THICKNESS:
\* Cross(a, b)^2 <= LINE_THICKNESS^2 * |b - a|^2
WithinStrip(a, b) == Le(Sq2(Cross(a, b)), ThicknessSqTimes(LengthSq(VSub(b, a))))

\* what the claim says improve_2_simplex leaves for the simplex [a, b]
ImprovedAsClaimed(a, b) ==
  IF ProjectsBetween(a, b)
  THEN IF WithinStrip(a, b)
       THEN verdict' = "overlap" /\ simplex' = <<a, b>>
       ELSE /\ verdict' = "running"
            /\ simplex' = <<a, b>>
            /\ search_direction'.unit
            /\ Sign(dot(search_direction'.v, VSub(b, a))) = 0
            /\ Sign(dot(search_direction'.v, VNeg(a))) > 0
  ELSE /\ verdict' = "running"
       /\ \E v \in {a, b} :
            /\ \A w \in {a, b} : Le(LengthSq(v), LengthSq(w))
            /\ simplex' = <<v>>
            /\ search_direction' = Dir(VNeg(v), TRUE)

\* C23: improve_2_simplex on [a, b].  When the origin projects between a
\* and b, it answers "inside" exactly when the origin is within
\* LINE_THICKNESS of the line, leaving [a, b]; otherwise not inside, the
\* simplex unchanged, the direction the unit perpendicular of ab on the
\* origin's side.  When the origin projects outside, the simplex becomes
\* the nearer end vertex v and the direction normalised(-v).
C23_ImproveTwoSimplex ==
  [][pc = "idle" /\ pc' = "done" => ImprovedAsClaimed(simplex[1], simplex[2])]_vars

\* improve_2_simplex has reduced the simplex to an end vertex
C23_Witness ==
  /\ call = "improve_2_simplex"
  /\ pc = "done"
  /\ Len(simplex) = 1

(***************************************************************************)
(* C24  A repeated support point ends the query.                           *)
(***************************************************************************)
\* the vertex the loop of shapes_are_overlapping pushes in this iteration
PushedCorner == get_minkowski_diffed_corner(shape_a, shape_b, search_direction.v)

\* two vertices of s are within LINE_THICKNESS of each other
HasDuplicates(s) ==
  \E i \in 1..Len(s) : \E j \in 1..Len(s) : i < j /\ CornersSimilar(s[i], s[j])

\* this step is an iteration of the loop of shapes_are_overlapping
GjkIteration == pc = "gjk" /\ gjk_iterations' = gjk_iterations + 1

\* C24: in an iteration of shapes_are_overlapping whose new support point
\* is within LINE_THICKNESS of a vertex already in the simplex, the query
\* returns no overlap; so every simplex that improve_simplex is run on, and
\* every simplex reported on overlap, is free of duplicates.
C24_RepeatedSupportEndsQuery ==
  [][GjkIteration =>
       /\ (\E i \in 1..Len(simplex) : CornersSimilar(simplex[i], PushedCorner))
            => verdict' = "no_overlap"
       /\ verdict' # "no_overlap" => ~HasDuplicates(Append(simplex, PushedCorner))
       /\ verdict' = "overlap" => ~HasDuplicates(simplex')]_vars

\* a query has returned no overlap on pushing a vertex the simplex of two
\* already had
C24_Witness ==
  /\ verdict = "no_overlap"
  /\ Len(simplex) = 3
  /\ HasDuplicates(simplex)

(***************************************************************************)
(* C25  Overlap found with fewer than three vertices.                      *)
(***************************************************************************)
\* get_overlap_amount has returned after an overlap found with a simplex
\* of fewer than three vertices
ReturnedFromSmallSimplex ==
  /\ call = "get_overlap_amount"
  /\ pc = "done"
  /\ verdict = "overlap"
  /\ Len(simplex) < 3

\* C25: after an overlap reported with fewer than three vertices,
\* get_overlap_amount has not run the expansion loop and returns the vector
\* of length LINE_THICKNESS along shape_b.pos - shape_a.pos, or
\* (LINE_THICKNESS, 0) when the two positions are equal.
C25_SmallSimplexNudge ==
  ReturnedFromSmallSimplex =>
    /\ epa_iterations = 0
    /\ amount.num = Zero3V
    /\ amount.den = One2
    /\ amount.dir # Zero3V
    /\ IF shape_a.pos = shape_b.pos
       THEN amount.dir = VWiden(v2(<<1, 0>>, <<0, 0>>))
       ELSE amount.dir = VWiden(VSub(shape_b.pos, shape_a.pos))

\* the nudge has been returned for two shapes at different positions
C25_Witness ==
  /\ ReturnedFromSmallSimplex
  /\ shape_a.pos # shape_b.pos

(***************************************************************************)
(* C26  The search direction improve_simplex leaves.                       *)
(***************************************************************************)
\* the origin is a vertex of s, or is on the line through the two vertices
\* of s
OriginOnVertexOrLine(s) ==
  \/ \E i \in 1..Len(s) : s[i] = ORIGIN
  \/ Len(s) = 2 /\ Sign(Cross(s[1], s[2])) = 0

\* C26: an iteration of shapes_are_overlapping in which improve_simplex
\* returns false leaves a search direction that is normalised and not
\* (0, 0), and a simplex that has the origin neither on a vertex nor on the
\* line of its edge: those cases end the query with "origin inside".
C26_DirectionNonzero ==
  [][(GjkIteration /\ verdict' = "running") =>
       /\ search_direction'.unit
       /\ ~is_0(search_direction'.v)
       /\ ~OriginOnVertexOrLine(simplex')]_vars

\* improve_simplex has returned false and the loop goes on
C26_Witness ==
  /\ pc = "gjk"
  /\ gjk_iterations >= 1
  /\ verdict = "running"
  /\ search_direction.unit

(***************************************************************************)
(* C27  Bounding rejection never changes the verdict.                      *)
(***************************************************************************)
\* the shape with its radius set to its bounding radius: the distance of
\* its farthest corner from its position
WithBoundingRadius(shape) ==
  [pos |-> shape.pos, radius |-> MaxLengthSq(shape.corners, 1)]

BoundingBoxesDisjoint ==
  ~shapes_are_close(WithBoundingRadius(shape_a), WithBoundingRadius(shape_b))

OuterNormalOfClosestLine(s) ==
  LET s0 == ClosestLineIndex(s, 2, 1)
  IN  normal_in_direction_or_0(VSub(s[NextIndex(s, s0)], s[s0]), VSub(s[s0], ORIGIN))

\* C28: at the top of every iteration of the expansion loop of
\* get_overlap_amount, the outer normal of the polytope's closest edge is
\* not (0, 0): the assert of line 744 holds, the origin is never on the
\* line through the closest edge.
C28_OuterNormalNonzero ==
  pc = "epa" => ~is_0(OuterNormalOfClosestLine(simplex).v)

(***************************************************************************)
(* C29  The edge the expansion loop stops on.                              *)
(***************************************************************************)
\* C29: when the expansion loop has stopped on the edge overlap_line_index
\* of a polytope of n vertices, that index and the next are both indices
\* of the polytope (here from 1 to n), so that lines 771-772 read the
\* polytope's own edge, the closing edge included.
C29_StoppedEdgeInsidePolytope ==
  pc = "epa_done" =>
    /\ overlap_line_index >= 1
    /\ overlap_line_index + 1 <= Len(simplex)

(***************************************************************************)
(* C30  The simplex that shapes_are_overlapping hands out.                 *)
(***************************************************************************)
\* the three outward normals improve_simplex computes for s (lines 654-656)
EdgeNormals(s) ==
  LET ab == VSub(s[2], s[1])
      bc == VSub(s[3], s[2])
      ca == VSub(s[1], s[3])
  IN  <<normal_in_direction_or_0(ab, ca).v,
        normal_in_direction_or_0(bc, ab).v,
        normal_in_direction_or_0(ca, bc).v>>

\* s is a triangle with three different corners that are not on one line,
\* and the origin is inside it or on its boundary
TriangleAroundOrigin(s) ==
  /\ s[1] # s[2] /\ s[2] # s[3] /\ s[3] # s[1]
  /\ Sign(Cross(VSub(s[2], s[1]), VSub(s[3], s[1]))) # 0
  /\ \A i \in 1..3 : ~is_0(EdgeNormals(s)[i])
  /\ \A i \in 1..3 : EdgeSigns(s)[i] <= 0

\* C30: a simplex of three vertices that shapes_are_overlapping hands out
\* on overlap is a triangle of three different, non-collinear points, with
\* three nonzero outward normals, whose closed region contains the origin;
\* and at the top of every iteration of the loop of shapes_are_overlapping
\* the simplex has one or two vertices.
C30_SimplexShape ==
  /\ OverlapWithTriangle => TriangleAroundOrigin(simplex)
  /\ pc = "gjk" => Len(simplex) \in {1, 2}

\* an overlap has been reported with three vertices after the loop had gone
\* round with two
C30_Witness ==
  /\ OverlapWithTriangle
  /\ gjk_iterations >= 3

====
